---- MODULE Spec2Model ----
(***************************************************************************)
(* State-machine model of the video ingestion / processing back end and of  *)
(* its playback side: streaming, presigned urls, views and progress.        *)
(*                                                                         *)
(* Every record, stored object and job of the program is keyed by the id   *)
(* of one Video and no operation reads another Video's rows, so the model  *)
(* follows the rows, objects and jobs of a single Video (VideoId).         *)
(*                                                                         *)
(* A database commit writes the attributes the code assigned since the     *)
(* previous commit of the same session (SQLAlchemy unit of work), so each  *)
(* commit is an update of exactly those columns of the row.  Timestamps    *)
(* are modelled by whether they are set.  Nullable numbers use NullNum,    *)
(* nullable strings NULL, nullable paths NoPath.                           *)
(***************************************************************************)
EXTENDS Integers, Sequences, FiniteSets, TLC

(* ---------------------------------------------------------------- bounds *)
\* upload_video_file calls that may run on the Video (the API request's call
\* is caller 1; further callers use the service method directly)
NumCallers == 2
\* deliveries of the process_video_upload message: the one enqueued by the
\* upload request and those the at-least-once queue adds (duplicates, and
\* the requeue of a message whose worker was lost)
MaxJobs == 2

(* ----------------------------------------------------- program constants *)
MAX_UPLOAD_SIZE == 209715200
STREAMING_CHUNK_SIZE == 1048576
ALLOWED_VIDEO_EXTENSIONS == {".mp4", ".mov", ".avi", ".mkv", ".webm"}
ExpectedMimeTypes ==
    {"video/mp4", "video/quicktime", "video/x-msvideo", "video/x-matroska", "video/webm"}
ENABLE_VIDEO_THUMBNAILS == TRUE

PENDING == "pending"
UPLOADING == "uploading"
PROCESSING == "processing"
COMPLETED == "completed"
FAILED == "failed"
DELETED == "deleted"
VideoStatus == {PENDING, UPLOADING, PROCESSING, COMPLETED, FAILED, DELETED}

NULL == "None"
NullNum == -1
NoPath == ""

VideoId == "v1"
StoredName == "uuid.mp4"
Callers == 1 .. NumCallers
ApiCaller == 1
JobIds == 1 .. MaxJobs

\* playback requests (GET /stream, GET /url, POST /progress) that may run on
\* the Video, each on a database session of its own
NumRequests == 2

\* the largest byte position a client names in a Range header
MaxPos == 12

(* ------------------------------------------------------- media inspector *)
\* The payloads the environment may send and what OpenCV reports for each:
\* "good" opens and decodes, "noframe" opens but yields no frame at the seek
\* position, "corrupt" does not open (every cap.get() then returns 0).
Payloads == {"good", "noframe", "corrupt"}
Media ==
    [good    |-> [opened |-> TRUE,  frame_count |-> 360, fps |-> 30,
                  width |-> 640, height |-> 360, frame |-> TRUE],
     noframe |-> [opened |-> TRUE,  frame_count |-> 0,   fps |-> 30,
                  width |-> 640, height |-> 360, frame |-> FALSE],
     corrupt |-> [opened |-> FALSE, frame_count |-> 0,   fps |-> 0,
                  width |-> 0,   height |-> 0,   frame |-> FALSE]]

\* duration = frame_count / fps if fps > 0 else 0 (the media above have frame
\* counts that are multiples of fps, so the quotient is exact)
Duration(frame_count, fps) == IF fps > 0 THEN frame_count \div fps ELSE 0

\* extract_video_metadata: raises when the capture does not open
ExtractVideoMetadata(data) ==
    LET m == Media[data] IN
    IF ~m.opened
    THEN [ok |-> FALSE, duration |-> NullNum, width |-> NullNum,
          height |-> NullNum, fps |-> NullNum]
    ELSE [ok |-> TRUE, duration |-> Duration(m.frame_count, m.fps),
          width |-> m.width, height |-> m.height, fps |-> m.fps]

\* the inline extraction of VideoService._process_video_metadata: no isOpened
\* check, the properties of an unopened capture read as 0
InlineMetadata(data) ==
    LET m == Media[data] IN
    [duration |-> Duration(m.frame_count, m.fps),
     width |-> m.width, height |-> m.height, fps |-> m.fps]

\* cap.isOpened() and ret of cap.read() at the middle frame
FrameAvailable(data) == Media[data].opened /\ Media[data].frame

\* the encoded thumbnail of a payload
ThumbnailOf(data) == "jpg of " \o data

\* the bytes of each payload: objects of 12, 3 and 1 bytes whose values tell
\* the positions apart
Bytes ==
    [good    |-> [i \in 1..12 |-> 100 + i],
     noframe |-> <<201, 202, 203>>,
     corrupt |-> <<255>>]

(* ----------------------------------------------------------------- paths *)
VideoPath(video_id, filename) == "videos/" \o video_id \o "/" \o filename
ThumbnailPath(video_id) ==
    "thumbnails/" \o video_id \o "/" \o "thumbnail_" \o video_id \o ".jpg"

(* ---------------------------------------------------------- object store *)
\* put_object replaces the object stored under the same name
PutObject(s, path, data) == {o \in s : o.path # path} \cup {[path |-> path, data |-> data]}
RemoveObject(s, path) == {o \in s : o.path # path}
ObjectExists(s, path) == \E o \in s : o.path = path
ObjectData(s, path) == (CHOOSE o \in s : o.path = path).data

(* ----------------------------------------------------------------- state *)
VARIABLES
    video,      \* the Video row
    usess,      \* the VideoUploadSession row of each upload_video_file call
    store,      \* the objects of the bucket
    apiPc,      \* position of the POST /upload request
    file,       \* the UploadFile of the request
    up,         \* position and locals of each upload_video_file call
    jobs,       \* each delivery of process_video_upload: position and locals
    del,        \* the DELETE request in progress: position and the row as loaded
    lastFinal,  \* outcome written by the latest final status commit of a job
    views,      \* the VideoViewSession rows, by the request that inserted them
    reqs        \* the playback requests: position, locals and response

vars == <<video, usess, store, apiPc, file, up, jobs, del, lastFinal, views, reqs>>

NoVideo ==
    [exists |-> FALSE, status |-> PENDING, processing_progress |-> 0,
     error_message |-> NULL, file_path |-> NoPath, file_size |-> 0,
     duration |-> NullNum, width |-> NullNum, height |-> NullNum, fps |-> NullNum,
     thumbnail_path |-> NoPath, thumbnail_generated |-> FALSE,
     uploaded_at |-> FALSE, processed_at |-> FALSE, view_count |-> 0]

NoSession ==
    [status |-> "none", bytes_uploaded |-> 0, upload_progress |-> 0,
     error_message |-> NULL, completed_at |-> FALSE]

NoFile == [size |-> 0, ext |-> "", ctype |-> "", data |-> "good"]

\* an upload_video_file call: position, the exception caught (err), the blob
\* read back by the inline processing (data), whether its metadata is assigned
\* and uncommitted (meta), and the status of the Video object it was given (seen)
NoCall ==
    [pc |-> "idle", err |-> NULL, data |-> "good", meta |-> FALSE, seen |-> "none",
     length |-> 0]

\* the claimed result fields of a row
ResultOf(v) ==
    [status |-> v.status, duration |-> v.duration, width |-> v.width,
     height |-> v.height, fps |-> v.fps, thumbnail_path |-> v.thumbnail_path]

\* a delivery: position, the task's locals (data: the downloaded blob, thumb:
\* the value returned by generate_video_thumbnail_sync, err: the exception
\* caught), soft: the soft time limit has fired, after: the deliveries that had
\* ended when this one started, result: the row as its last commit left it
NoJob ==
    [pc |-> "none", data |-> "good", thumb |-> NoPath, err |-> NULL, soft |-> FALSE,
     after |-> {}, result |-> ResultOf(NoVideo)]

Requests == 1..NumRequests

\* a VideoViewSession row with its column defaults; a row is keyed by the
\* request that inserted it (its id is a fresh uuid)
NoView ==
    [exists |-> FALSE, session_id |-> "", current_time |-> 0,
     completion_percentage |-> 0, is_completed |-> FALSE]

\* the response of a request: status code, the "error" of the JSON body an
\* exception handler writes, the payload bytes, the Content-Range and
\* Content-Length headers, the presigned url, the progress of a view session
NoProgress ==
    [current_time |-> NullNum, completion_percentage |-> NullNum,
     resume_position |-> NullNum]

NoResponse ==
    [status |-> 0, error |-> "", body |-> <<>>, content_range |-> "",
     content_length |-> "", url |-> "", progress |-> NoProgress]

\* the Video object of a request's database session as it was loaded
RowOf(v) ==
    [exists |-> v.exists, status |-> v.status, file_path |-> v.file_path,
     duration |-> v.duration, view_count |-> v.view_count]

\* a playback request: the endpoint (op), position, the X-Session-ID or the
\* session_id of the body (session_id), the Video object of its session (row),
\* the view session its select returned (found: 0 for None), the exception
\* raised (exc), the object read from the store (content), the Range header
\* (range), the current_time of the body (time), the requests whose
\* record_video_view call had returned when its own call began (after), and
\* the response
NoRequest ==
    [op |-> "none", pc |-> "idle", session_id |-> "", row |-> RowOf(NoVideo),
     found |-> 0, exc |-> NULL, content |-> <<>>, range |-> <<>>, time |-> 0,
     after |-> {}, resp |-> NoResponse]

Init ==
    /\ video = NoVideo
    /\ usess = [c \in Callers |-> NoSession]
    /\ store = {}
    /\ apiPc = "start"
    /\ file = NoFile
    /\ up = [c \in Callers |-> NoCall]
    /\ jobs = [j \in JobIds |-> NoJob]
    /\ del = [pc |-> "idle", thumbnail_path |-> NoPath]
    /\ lastFinal = "none"
    /\ views = [r \in Requests |-> NoView]
    /\ reqs = [r \in Requests |-> NoRequest]

(* ------------------------------------------------------- POST /upload *)
\* the files a client may send
Files ==
    [size : {500000, MAX_UPLOAD_SIZE + 1},
     ext : {".mp4", ".exe"},
     ctype : {"video/mp4", "text/plain"},
     data : Payloads]

\* a validation that leaves out the MIME type check; C26_RejectsInvalid has
\* to reject it
ValidVideoFileNoMime(f) ==
    /\ ~(f.size > MAX_UPLOAD_SIZE)
    /\ f.ext \in ALLOWED_VIDEO_EXTENSIONS

\* VideoService._validate_video_file: TRUE when no HTTPException is raised
ValidVideoFile(f) ==
    /\ ~(f.size > MAX_UPLOAD_SIZE)
    /\ f.ext \in ALLOWED_VIDEO_EXTENSIONS
    /\ f.ctype \in ExpectedMimeTypes

\* VideoService.create_video, called first by upload_video with the file of
\* the request
CreateVideo ==
    /\ apiPc = "start"
    /\ \E f \in Files :
        IF ValidVideoFile(f)
        THEN /\ video' = [NoVideo EXCEPT !.exists = TRUE, !.status = PENDING,
                                        !.file_size = f.size,
                                        !.file_path = VideoPath(VideoId, StoredName)]
             /\ file' = f
             /\ apiPc' = "created"
        ELSE /\ apiPc' = "rejected"
             /\ file' = f
             /\ UNCHANGED video
    /\ UNCHANGED <<usess, store, up, jobs, del, lastFinal, views, reqs>>


(* ------------------------------------------- VideoService.upload_video_file *)
\* the API request calls upload_video_file on the Video it has just created;
\* any other caller passes a Video that exists
MayBegin(c) == IF c = ApiCaller THEN apiPc = "created" ELSE video.exists

\* the content and the length of the payload read by file.read()
FileContent(f) == f.data
FileLength(f) == f.size

\* the lengths file.read() may return in a call: the API request passes the
\* UploadFile whose size create_video stored, a direct caller passes a file
\* of its own, as long as that one or longer
PayloadLengths(c) ==
    IF c = ApiCaller THEN {FileLength(file)}
    ELSE {FileLength(file), FileLength(file) + 1}

\* the text of the exceptions the handlers store with str(e)
UploadError == "500: File upload failed: S3Error"
FileNotFound == "404: File not found: " \o VideoPath(VideoId, StoredName)
InlineError(e) == "Processing failed: " \o e

\* lines 113-124: the session row is added in status Uploading and committed
UploadBegin(c) ==
    /\ up[c].pc = "idle"
    /\ MayBegin(c)
    /\ usess' = [usess EXCEPT ![c] = [NoSession EXCEPT !.status = UPLOADING]]
    /\ up' = [up EXCEPT ![c].pc = "session", ![c].seen = video.status]
    /\ UNCHANGED <<video, store, apiPc, file, jobs, del, lastFinal, views, reqs>>

\* lines 127-129
UploadSetUploading(c) ==
    /\ up[c].pc = "session"
    /\ video' = [video EXCEPT !.status = UPLOADING]
    /\ up' = [up EXCEPT ![c].pc = "put"]
    /\ UNCHANGED <<usess, store, apiPc, file, jobs, del, lastFinal, views, reqs>>

\* lines 131-141: read the payload and put it to the object store; the put
\* either stores the object or raises
UploadPut(c) ==
    /\ up[c].pc = "put"
    /\ \E ok \in BOOLEAN, n \in PayloadLengths(c) :
        IF ok
        THEN /\ store' = PutObject(store, VideoPath(VideoId, StoredName), FileContent(file))
             /\ up' = [up EXCEPT ![c].pc = "stored", ![c].length = n]
        ELSE /\ up' = [up EXCEPT ![c].pc = "putfailed", ![c].err = UploadError,
                                 ![c].length = n]
             /\ UNCHANGED store
    /\ UNCHANGED <<video, usess, apiPc, file, jobs, del, lastFinal, views, reqs>>

\* lines 143-153: the commit after a successful put
UploadCommit(c) ==
    /\ up[c].pc = "stored"
    /\ usess' = [usess EXCEPT ![c].status = COMPLETED,
                              ![c].bytes_uploaded = up[c].length,
                              ![c].upload_progress = 100,
                              ![c].completed_at = TRUE]
    /\ video' = [video EXCEPT !.status = PROCESSING,
                              !.file_path = VideoPath(VideoId, StoredName),
                              !.uploaded_at = TRUE]
    /\ up' = [up EXCEPT ![c].pc = "inline_fetch"]
    /\ UNCHANGED <<store, apiPc, file, jobs, del, lastFinal, views, reqs>>

\* a faulty handler that marks only the session failed; C4_UploadFailure
\* has to reject it
UploadFailedSessionOnly(c) ==
    /\ up[c].pc = "putfailed"
    /\ usess' = [usess EXCEPT ![c].status = FAILED,
                              ![c].error_message = up[c].err,
                              ![c].bytes_uploaded = up[c].length]
    /\ up' = [up EXCEPT ![c].pc = "failed"]
    /\ UNCHANGED <<video, store, apiPc, file, jobs, del, lastFinal, views, reqs>>

\* lines 160-171: the handler of a failed put; the commit also flushes the
\* bytes_uploaded assigned before the put
UploadFailed(c) ==
    /\ up[c].pc = "putfailed"
    /\ usess' = [usess EXCEPT ![c].status = FAILED,
                              ![c].error_message = up[c].err,
                              ![c].bytes_uploaded = up[c].length]
    /\ video' = [video EXCEPT !.status = FAILED, !.error_message = up[c].err]
    /\ up' = [up EXCEPT ![c].pc = "failed"]
    /\ UNCHANGED <<store, apiPc, file, jobs, del, lastFinal, views, reqs>>

(* ------------------------------- VideoService._process_video_metadata *)
\* the metadata assigned to the session's Video object and not yet committed
PendingMetadata(c, v) ==
    IF up[c].meta
    THEN LET m == InlineMetadata(up[c].data) IN
         [v EXCEPT !.duration = m.duration, !.width = m.width,
                   !.height = m.height, !.fps = m.fps]
    ELSE v

\* lines 412-441: fetch the blob and read its properties; they are assigned
\* to the Video object and reach the row with the next commit
InlineFetch(c) ==
    /\ up[c].pc = "inline_fetch"
    /\ \E ok \in BOOLEAN :
        IF ok /\ ObjectExists(store, video.file_path)
        THEN up' = [up EXCEPT ![c].pc = IF ENABLE_VIDEO_THUMBNAILS
                                        THEN "inline_thumb" ELSE "inline_complete",
                              ![c].data = ObjectData(store, video.file_path),
                              ![c].meta = TRUE]
        ELSE up' = [up EXCEPT ![c].pc = "inline_failed", ![c].err = FileNotFound]
    /\ UNCHANGED <<video, usess, store, apiPc, file, jobs, del, lastFinal, views, reqs>>

\* VideoService.generate_video_thumbnail up to the put (lines 286-317): every
\* exception is swallowed and no frame means no thumbnail
InlineThumb(c) ==
    /\ up[c].pc = "inline_thumb"
    /\ \E ok \in BOOLEAN :
        IF ok /\ ObjectExists(store, video.file_path)
              /\ Media[ObjectData(store, video.file_path)].frame
        THEN /\ store' = PutObject(store, ThumbnailPath(VideoId),
                                   ThumbnailOf(ObjectData(store, video.file_path)))
             /\ up' = [up EXCEPT ![c].pc = "inline_thumb_commit"]
        ELSE /\ up' = [up EXCEPT ![c].pc = "inline_complete"]
             /\ UNCHANGED store
    /\ UNCHANGED <<video, usess, apiPc, file, jobs, del, lastFinal, views, reqs>>

\* VideoService.generate_video_thumbnail lines 319-322
InlineThumbCommit(c) ==
    /\ up[c].pc = "inline_thumb_commit"
    /\ video' = [PendingMetadata(c, video) EXCEPT
                    !.thumbnail_path = ThumbnailPath(VideoId),
                    !.thumbnail_generated = TRUE]
    /\ up' = [up EXCEPT ![c].pc = "inline_complete", ![c].meta = FALSE]
    /\ UNCHANGED <<usess, store, apiPc, file, jobs, del, lastFinal, views, reqs>>

\* lines 447-452, after which upload_video_file returns the session
InlineComplete(c) ==
    /\ up[c].pc = "inline_complete"
    /\ video' = [PendingMetadata(c, video) EXCEPT
                    !.status = COMPLETED,
                    !.processed_at = TRUE,
                    !.processing_progress = 100]
    /\ up' = [up EXCEPT ![c].pc = "returned", ![c].meta = FALSE]
    /\ UNCHANGED <<usess, store, apiPc, file, jobs, del, lastFinal, views, reqs>>

\* lines 454-459: the exception is recorded and swallowed, upload_video_file
\* returns the session
InlineFailed(c) ==
    /\ up[c].pc = "inline_failed"
    /\ video' = [PendingMetadata(c, video) EXCEPT
                    !.status = FAILED,
                    !.error_message = InlineError(up[c].err)]
    /\ up' = [up EXCEPT ![c].pc = "returned", ![c].meta = FALSE]
    /\ UNCHANGED <<usess, store, apiPc, file, jobs, del, lastFinal, views, reqs>>

(* ------------------------------------------------ upload_video, the end *)
FreeJobs == {j \in JobIds : jobs[j].pc = "none"}
NextJob == CHOOSE j \in FreeJobs : \A k \in FreeJobs : j <= k

\* process_video_upload.delay(video.id, video.file_path)
ApiEnqueue ==
    /\ apiPc = "created"
    /\ up[ApiCaller].pc = "returned"
    /\ FreeJobs # {}
    /\ jobs' = [jobs EXCEPT ![NextJob].pc = "queued"]
    /\ apiPc' = "done"
    /\ UNCHANGED <<video, usess, store, file, up, del, lastFinal, views, reqs>>


(* --------------------------------------- celery task process_video_upload *)
VideoNotFound == "Video not found"
MetadataError == "Failed to extract metadata: " \o "Could not open video file"
StaleRow == "StaleDataError"
SoftTimeLimitExceeded == "SoftTimeLimitExceeded()"

\* positions at which a job sits in a blocking call (object store, OpenCV)
Blocking == {"fetch", "extract", "thumb"}
Running == Blocking \cup {"commit_thumb", "complete", "handler"}
Finished == {"done", "failed"}
Ended == {k \in JobIds : jobs[k].pc \in Finished}

\* lines 70-79: load the row, set status and progress, commit
JobStart(j) ==
    /\ jobs[j].pc = "queued"
    /\ IF video.exists
       THEN /\ video' = [video EXCEPT !.status = PROCESSING, !.processing_progress = 10]
            /\ jobs' = [jobs EXCEPT ![j].pc = "fetch", ![j].after = Ended]
       ELSE /\ jobs' = [jobs EXCEPT ![j].pc = "handler", ![j].err = VideoNotFound,
                                    ![j].after = Ended]
            /\ UNCHANGED video
    /\ UNCHANGED <<usess, store, apiPc, file, up, del, lastFinal, views, reqs>>

\* lines 87-95: download the blob named by the task's file_path argument
JobFetch(j) ==
    /\ jobs[j].pc = "fetch"
    /\ \E ok \in BOOLEAN :
        IF ok /\ ObjectExists(store, VideoPath(VideoId, StoredName))
        THEN jobs' = [jobs EXCEPT ![j].pc = "extract",
                                  ![j].data = ObjectData(store, VideoPath(VideoId, StoredName))]
        ELSE jobs' = [jobs EXCEPT ![j].pc = "handler", ![j].err = FileNotFound]
    /\ UNCHANGED <<video, usess, store, apiPc, file, up, del, lastFinal, views, reqs>>

\* lines 97-110: extract the metadata, assign it with progress 50, commit
JobExtract(j) ==
    /\ jobs[j].pc = "extract"
    /\ LET m == ExtractVideoMetadata(jobs[j].data) IN
       IF ~m.ok
       THEN /\ jobs' = [jobs EXCEPT ![j].pc = "handler", ![j].err = MetadataError]
            /\ UNCHANGED video
       ELSE IF ~video.exists
       THEN /\ jobs' = [jobs EXCEPT ![j].pc = "handler", ![j].err = StaleRow]
            /\ UNCHANGED video
       ELSE /\ video' = [video EXCEPT !.duration = m.duration, !.width = m.width,
                                      !.height = m.height, !.fps = m.fps,
                                      !.processing_progress = 50]
            /\ jobs' = [jobs EXCEPT ![j].pc = IF ENABLE_VIDEO_THUMBNAILS
                                              THEN "thumb" ELSE "complete"]
    /\ UNCHANGED <<usess, store, apiPc, file, up, del, lastFinal, views, reqs>>

\* a faulty thumbnail step that names the object after the delivery;
\* C10_Idempotent has to reject it
RunName == <<"a", "b", "c", "d">>
JobThumbPerRun(j) ==
    /\ jobs[j].pc = "thumb"
    /\ \E ok \in BOOLEAN :
        IF ok /\ FrameAvailable(jobs[j].data)
        THEN /\ store' = PutObject(store, ThumbnailPath(VideoId) \o RunName[j],
                                   ThumbnailOf(jobs[j].data))
             /\ jobs' = [jobs EXCEPT ![j].pc = "commit_thumb",
                                     ![j].thumb = ThumbnailPath(VideoId) \o RunName[j]]
        ELSE /\ jobs' = [jobs EXCEPT ![j].pc = "commit_thumb", ![j].thumb = NoPath]
             /\ UNCHANGED store
    /\ UNCHANGED <<video, usess, apiPc, file, up, del, lastFinal, views, reqs>>

\* generate_video_thumbnail_sync (lines 370-429): returns the path after a
\* successful put, None when the capture gives no frame or anything raises
JobThumb(j) ==
    /\ jobs[j].pc = "thumb"
    /\ \E ok \in BOOLEAN :
        IF ok /\ FrameAvailable(jobs[j].data)
        THEN /\ store' = PutObject(store, ThumbnailPath(VideoId), ThumbnailOf(jobs[j].data))
             /\ jobs' = [jobs EXCEPT ![j].pc = "commit_thumb",
                                     ![j].thumb = ThumbnailPath(VideoId)]
        ELSE /\ jobs' = [jobs EXCEPT ![j].pc = "commit_thumb", ![j].thumb = NoPath]
             /\ UNCHANGED store
    /\ UNCHANGED <<video, usess, apiPc, file, up, del, lastFinal, views, reqs>>

\* a faulty commit that records the thumbnail path whether or not the
\* generation returned one; C31_ThumbnailPathSet has to reject it
JobCommitThumbAlways(j) ==
    /\ jobs[j].pc = "commit_thumb"
    /\ IF ~video.exists
       THEN /\ jobs' = [jobs EXCEPT ![j].pc = "handler", ![j].err = StaleRow]
            /\ UNCHANGED video
       ELSE /\ video' = [video EXCEPT !.thumbnail_path = ThumbnailPath(VideoId),
                                      !.thumbnail_generated = TRUE,
                                      !.processing_progress = 80]
            /\ jobs' = [jobs EXCEPT ![j].pc = "complete"]
    /\ UNCHANGED <<usess, store, apiPc, file, up, del, lastFinal, views, reqs>>

\* lines 122-127
JobCommitThumb(j) ==
    /\ jobs[j].pc = "commit_thumb"
    /\ IF ~video.exists
       THEN /\ jobs' = [jobs EXCEPT ![j].pc = "handler", ![j].err = StaleRow]
            /\ UNCHANGED video
       ELSE /\ video' = IF jobs[j].thumb # NoPath
                        THEN [video EXCEPT !.thumbnail_path = jobs[j].thumb,
                                           !.thumbnail_generated = TRUE,
                                           !.processing_progress = 80]
                        ELSE [video EXCEPT !.processing_progress = 80]
            /\ jobs' = [jobs EXCEPT ![j].pc = "complete"]
    /\ UNCHANGED <<usess, store, apiPc, file, up, del, lastFinal, views, reqs>>

\* lines 134-138: the final commit of a successful job
JobComplete(j) ==
    /\ jobs[j].pc = "complete"
    /\ IF ~video.exists
       THEN /\ jobs' = [jobs EXCEPT ![j].pc = "handler", ![j].err = StaleRow]
            /\ UNCHANGED <<video, lastFinal, views, reqs>>
       ELSE /\ video' = [video EXCEPT !.status = COMPLETED, !.processed_at = TRUE,
                                      !.processing_progress = 100]
            /\ jobs' = [jobs EXCEPT ![j].pc = "done", ![j].result = ResultOf(video')]
            /\ lastFinal' = COMPLETED
    /\ UNCHANGED <<usess, store, apiPc, file, up, del, views, reqs>>

\* a faulty handler that records the message without the status;
\* C9_LastCommitWins has to reject it
JobHandlerMessageOnly(j) ==
    /\ jobs[j].pc = "handler"
    /\ IF video.exists
       THEN /\ video' = [video EXCEPT !.error_message = jobs[j].err]
            /\ lastFinal' = FAILED
       ELSE UNCHANGED <<video, lastFinal, views, reqs>>
    /\ jobs' = [jobs EXCEPT ![j].pc = "failed", ![j].result = ResultOf(video')]
    /\ UNCHANGED <<usess, store, apiPc, file, up, del, views, reqs>>

\* lines 158-169: the handler queries the row again and, when it is there,
\* marks it failed with str(e); the task then raises
JobHandler(j) ==
    /\ jobs[j].pc = "handler"
    /\ IF video.exists
       THEN /\ video' = [video EXCEPT !.status = FAILED, !.error_message = jobs[j].err]
            /\ lastFinal' = FAILED
       ELSE UNCHANGED <<video, lastFinal, views, reqs>>
    /\ jobs' = [jobs EXCEPT ![j].pc = "failed", ![j].result = ResultOf(video')]
    /\ UNCHANGED <<usess, store, apiPc, file, up, del, views, reqs>>

(* ------------------------------------------ task queue and time limits *)
\* at-least-once delivery: the message is delivered once more
Redeliver ==
    /\ \E j \in JobIds : jobs[j].pc # "none"
    /\ FreeJobs # {}
    /\ jobs' = [jobs EXCEPT ![NextJob].pc = "queued"]
    /\ UNCHANGED <<video, usess, store, apiPc, file, up, del, lastFinal, views, reqs>>

\* soft_time_limit: SoftTimeLimitExceeded is raised once in the task at the
\* call it is blocked in.  Inside generate_video_thumbnail_sync the blanket
\* except swallows it and the function returns None.
SoftTimeout(j) ==
    /\ jobs[j].pc \in Blocking
    /\ ~jobs[j].soft
    /\ jobs' = IF jobs[j].pc = "thumb"
               THEN [jobs EXCEPT ![j].pc = "commit_thumb", ![j].thumb = NoPath,
                                 ![j].soft = TRUE]
               ELSE [jobs EXCEPT ![j].pc = "handler", ![j].err = SoftTimeLimitExceeded,
                                 ![j].soft = TRUE]
    /\ UNCHANGED <<video, usess, store, apiPc, file, up, del, lastFinal, views, reqs>>

\* time_limit: the pool kills the process running the task; with acks_late the
\* message is acknowledged on the time-out, so it is not delivered again
HardTimeout(j) ==
    /\ jobs[j].pc \in Blocking
    /\ jobs' = [jobs EXCEPT ![j].pc = "killed"]
    /\ UNCHANGED <<video, usess, store, apiPc, file, up, del, lastFinal, views, reqs>>

\* task_acks_late with task_reject_on_worker_lost: the message of a task whose
\* worker process died is put back on the queue and delivered again
WorkerLost(j) ==
    /\ jobs[j].pc \in Blocking
    /\ FreeJobs # {}
    /\ jobs' = [jobs EXCEPT ![j].pc = "lost", ![NextJob].pc = "queued"]
    /\ UNCHANGED <<video, usess, store, apiPc, file, up, del, lastFinal, views, reqs>>

(* ---------------------------------------------- VideoService.delete_video *)
\* lines 175-179: load the row (404 when there is none)
DeleteBegin ==
    /\ del.pc = "idle"
    /\ video.exists
    /\ del' = [del EXCEPT !.pc = "blob", !.thumbnail_path = video.thumbnail_path]
    /\ UNCHANGED <<video, usess, store, apiPc, file, up, jobs, lastFinal, views, reqs>>

\* MinIOService.delete_file: removes the object, or returns False on S3Error
DeleteFile(path, ok) == IF ok THEN RemoveObject(store, path) ELSE store

\* lines 183-184
DeleteBlob ==
    /\ del.pc = "blob"
    /\ \E ok \in BOOLEAN : store' = DeleteFile(video.file_path, ok)
    /\ del' = [del EXCEPT !.pc = "thumb"]
    /\ UNCHANGED <<video, usess, apiPc, file, up, jobs, lastFinal, views, reqs>>

\* lines 186-188: the thumbnail path is the one of the row as loaded
DeleteThumbnail ==
    /\ del.pc = "thumb"
    /\ IF del.thumbnail_path # NoPath
       THEN \E ok \in BOOLEAN : store' = DeleteFile(del.thumbnail_path, ok)
       ELSE UNCHANGED store
    /\ del' = [del EXCEPT !.pc = "commit"]
    /\ UNCHANGED <<video, usess, apiPc, file, up, jobs, lastFinal, views, reqs>>

\* lines 190-194
DeleteCommit ==
    /\ del.pc = "commit"
    /\ video' = IF video.exists THEN [video EXCEPT !.status = DELETED] ELSE video
    /\ del' = [del EXCEPT !.pc = "idle", !.thumbnail_path = NoPath]
    /\ UNCHANGED <<usess, store, apiPc, file, up, jobs, lastFinal, views, reqs>>

(* ------------------------------------------------------ periodic_cleanup *)
\* deletes the rows of failed Videos created more than 24 hours ago (the age
\* is not modelled: any failed Video may be old enough); the delete cascades
\* to the upload sessions and the view sessions
PeriodicCleanup ==
    /\ video.exists
    /\ video.status = FAILED
    /\ video' = NoVideo
    /\ usess' = [c \in Callers |-> NoSession]
    /\ views' = [r \in Requests |-> NoView]
    /\ UNCHANGED <<store, apiPc, file, up, jobs, del, lastFinal, reqs>>

(* ------------------------------------------------------- error responses *)
\* main.py exception handlers: an HTTPException with status 404 or 500, and
\* any exception no route catches, is answered by a JSON body that carries
\* only the name of the status, never the detail of the exception
ErrorResponse(status) ==
    [NoResponse EXCEPT !.status = status,
                       !.error = IF status = 404 THEN "Not Found"
                                 ELSE "Internal Server Error"]

NotReady == "404: Video not found or not ready"
MultipleResultsFound == "Multiple rows were found when one or none was required"
IntegrityError == "IntegrityError"

(* ------------------------------------------------- text of a Range header *)
\* header values are sequences of one-character strings
Digit == <<"0", "1", "2", "3", "4", "5", "6", "7", "8", "9">>
IsDigit(c) == \E d \in 1..10 : Digit[d] = c
DigitValue(c) == (CHOOSE d \in 1..10 : Digit[d] = c) - 1

\* the decimal text of a natural number, as a client writes it
RECURSIVE Str(_)
Str(n) == IF n < 10 THEN <<Digit[n + 1]>>
          ELSE Str(n \div 10) \o <<Digit[(n % 10) + 1]>>

BytesUnit == <<"b", "y", "t", "e", "s", "=">>
RangeHeader(s, e) == BytesUnit \o Str(s) \o <<"-">> \o Str(e)
OpenRange(s) == BytesUnit \o Str(s) \o <<"-">>
SuffixRange(n) == BytesUnit \o <<"-">> \o Str(n)
\* no Range header: request.headers.get("Range") is None
NoRange == <<>>

\* headers that are not a single bytes=start-end range: non-numeric bounds,
\* two ranges, no dash, another unit
MalformedHeaders ==
    {BytesUnit \o <<"a", "-", "b">>,
     BytesUnit \o <<"0", "-", "1", ",", "2", "-", "3">>,
     BytesUnit \o <<"2">>,
     <<"i", "t", "e", "m", "s", "=", "0", "-", "1">>}

\* the Range headers a client may send
RangeHeaders ==
    {NoRange}
    \cup {RangeHeader(s, e) : s \in 0..MaxPos, e \in 0..MaxPos}
    \cup {OpenRange(s) : s \in 0..MaxPos}
    \cup {SuffixRange(n) : n \in 1..MaxPos}
    \cup MalformedHeaders

(* --------------------------------------------- str and slice operations *)
StartsWith(s, p) == Len(s) >= Len(p) /\ SubSeq(s, 1, Len(p)) = p

\* s.replace(old, ""): every occurrence of old removed, left to right
RECURSIVE Replace(_, _)
Replace(s, old) ==
    IF s = <<>> THEN <<>>
    ELSE IF StartsWith(s, old) THEN Replace(SubSeq(s, Len(old) + 1, Len(s)), old)
    ELSE <<Head(s)>> \o Replace(Tail(s), old)

\* s.split(sep) for a one-character separator
RECURSIVE Split(_, _)
Split(s, sep) ==
    IF \A i \in 1..Len(s) : s[i] # sep THEN <<s>>
    ELSE LET i == CHOOSE k \in 1..Len(s) :
                      s[k] = sep /\ \A m \in 1..(k - 1) : s[m] # sep
         IN <<SubSeq(s, 1, i - 1)>> \o Split(SubSeq(s, i + 1, Len(s)), sep)

\* s.strip() for blanks
RECURSIVE Strip(_)
Strip(s) ==
    IF s = <<>> THEN s
    ELSE IF Head(s) = " " THEN Strip(Tail(s))
    ELSE IF s[Len(s)] = " " THEN Strip(SubSeq(s, 1, Len(s) - 1))
    ELSE s

\* int(s): blanks around, an optional sign, then decimal digits; anything else
\* raises ValueError.  (A "-" never reaches int() here: the text was split
\* at every "-".)
Unsigned(s) == LET t == Strip(s) IN IF t # <<>> /\ Head(t) = "+" THEN Tail(t) ELSE t
IntOk(s) == Unsigned(s) # <<>> /\ \A i \in 1..Len(Unsigned(s)) : IsDigit(Unsigned(s)[i])
RECURSIVE DecimalValue(_)
DecimalValue(d) ==
    IF d = <<>> THEN 0
    ELSE 10 * DecimalValue(SubSeq(d, 1, Len(d) - 1)) + DigitValue(d[Len(d)])
IntOf(s) == DecimalValue(Unsigned(s))

Min(a, b) == IF a < b THEN a ELSE b

\* a slice that leaves out its last byte
SliceShort(content, start, stop) ==
    LET lo == Min(start, Len(content))
        hi == Min(stop - 1, Len(content))
    IN IF lo >= hi THEN <<>> ELSE SubSeq(content, lo + 1, hi)

\* content[start:stop] for start, stop >= 0 (positions count from 0)
Slice(content, start, stop) ==
    LET lo == Min(start, Len(content))
        hi == Min(stop, Len(content))
    IN IF lo >= hi THEN <<>> ELSE SubSeq(content, lo + 1, hi)

\* generate(): the chunks of STREAMING_CHUNK_SIZE bytes, one after another
RECURSIVE Generate(_)
Generate(content) ==
    IF content = <<>> THEN <<>>
    ELSE Slice(content, 0, STREAMING_CHUNK_SIZE)
         \o Generate(Slice(content, STREAMING_CHUNK_SIZE, Len(content)))

ValueError == "Streaming failed: invalid literal for int() with base 10"
IndexError == "Streaming failed: list index out of range"

\* videos.py lines 193-236: the response for the fetched content and the Range
\* header, or the exception the parsing raises (exc)
RangeResponse(content, range_header) ==
    IF range_header = <<>>
    THEN [exc |-> NULL,
          resp |-> [NoResponse EXCEPT !.status = 200,
                                      !.body = Generate(content),
                                      !.content_length = ToString(Len(content))]]
    ELSE
    LET range_match == Split(Replace(range_header, BytesUnit), "-") IN
    IF range_match[1] # <<>> /\ ~IntOk(range_match[1])
    THEN [exc |-> ValueError, resp |-> NoResponse]
    ELSE IF Len(range_match) < 2
    THEN [exc |-> IndexError, resp |-> NoResponse]
    ELSE IF range_match[2] # <<>> /\ ~IntOk(range_match[2])
    THEN [exc |-> ValueError, resp |-> NoResponse]
    ELSE
    LET start == IF range_match[1] # <<>> THEN IntOf(range_match[1]) ELSE 0
        end == IF range_match[2] # <<>> THEN IntOf(range_match[2])
               ELSE Len(content) - 1
        partial_content == Slice(content, start, end + 1)
    IN [exc |-> NULL,
        resp |-> [NoResponse EXCEPT
                    !.status = 206,
                    !.body = partial_content,
                    !.content_range = "bytes " \o ToString(start) \o "-"
                                      \o ToString(end) \o "/"
                                      \o ToString(Len(content)),
                    !.content_length = ToString(Len(partial_content))]]

(* ------------------------------------------------- GET /{video_id}/stream *)
SessionIds == {"s1", "s2"}
\* str(uuid.uuid4()): a value no other request has
Uuid(r) == "uuid-" \o ToString(r)

\* the rows a select by (video_id, session_id) returns
ViewRows(session_id) ==
    {q \in Requests : views[q].exists /\ views[q].session_id = session_id}

\* requests are numbered in the order they arrive
NextRequest(r) == reqs[r].pc = "idle" /\ \A q \in 1..(r - 1) : reqs[q].pc # "idle"

\* the requests whose record_video_view call has returned a view session
Recorded == {q \in Requests : reqs[q].op \in {"stream", "view"} /\ reqs[q].found # 0}

\* where a request goes on when its record_video_view call returns: the route
\* fetches the content, a direct call is over
AfterView(r) == IF reqs[r].op = "stream" THEN "fetch" ELSE "done"

\* a record_video_view call made on the service itself, for the id of a
\* Video there is, on a database session that has loaded nothing
RecordViewCall(r) ==
    /\ NextRequest(r)
    /\ video.exists
    /\ \E sid \in SessionIds :
        reqs' = [reqs EXCEPT ![r].op = "view", ![r].pc = "view",
                             ![r].session_id = sid]
    /\ UNCHANGED <<video, usess, store, apiPc, file, up, jobs, del, lastFinal, views>>

\* the route without the status test of line 172
StreamBeginAnyStatus(r) ==
    /\ NextRequest(r)
    /\ IF ~video.exists
       THEN reqs' = [reqs EXCEPT ![r].op = "stream", ![r].pc = "done",
                                 ![r].row = RowOf(video),
                                 ![r].exc = NotReady,
                                 ![r].resp = ErrorResponse(404)]
       ELSE \E sid \in SessionIds \cup {Uuid(r)} :
                reqs' = [reqs EXCEPT ![r].op = "stream", ![r].pc = "view",
                                     ![r].row = RowOf(video),
                                     ![r].session_id = sid]
    /\ UNCHANGED <<video, usess, store, apiPc, file, up, jobs, del, lastFinal, views>>

\* the route without the record_video_view call of lines 182-187
StreamBeginNoView(r) ==
    /\ NextRequest(r)
    /\ IF ~video.exists \/ video.status # COMPLETED
       THEN reqs' = [reqs EXCEPT ![r].op = "stream", ![r].pc = "done",
                                 ![r].row = RowOf(video),
                                 ![r].exc = NotReady,
                                 ![r].resp = ErrorResponse(404)]
       ELSE \E sid \in SessionIds \cup {Uuid(r)} :
                reqs' = [reqs EXCEPT ![r].op = "stream", ![r].pc = "fetch",
                                     ![r].row = RowOf(video),
                                     ![r].session_id = sid]
    /\ UNCHANGED <<video, usess, store, apiPc, file, up, jobs, del, lastFinal, views>>

\* lines 171-178: load the Video; 404 unless it is there and Completed;
\* otherwise take the session id of the X-Session-ID header or a new uuid
StreamBegin(r) ==
    /\ NextRequest(r)
    /\ IF ~video.exists \/ video.status # COMPLETED
       THEN reqs' = [reqs EXCEPT ![r].op = "stream", ![r].pc = "done",
                                 ![r].row = RowOf(video),
                                 ![r].exc = NotReady,
                                 ![r].resp = ErrorResponse(404)]
       ELSE \E sid \in SessionIds \cup {Uuid(r)} :
                reqs' = [reqs EXCEPT ![r].op = "stream", ![r].pc = "view",
                                     ![r].row = RowOf(video),
                                     ![r].session_id = sid]
    /\ UNCHANGED <<video, usess, store, apiPc, file, up, jobs, del, lastFinal, views>>

\* record_video_view without the test of line 487: a view session is created
\* whatever the select returned
RecordViewSelectAbsent(r) ==
    /\ reqs[r].op \in {"stream", "view"}
    /\ reqs[r].pc = "view"
    /\ reqs' = [reqs EXCEPT ![r].pc = "count", ![r].after = Recorded]
    /\ UNCHANGED <<video, usess, store, apiPc, file, up, jobs, del, lastFinal, views>>

\* record_video_view lines 479-485: select the view session of the pair;
\* scalar_one_or_none raises when there are two rows, and the route does not
\* catch it (the call is made before the try of line 189)
RecordViewSelect(r) ==
    /\ reqs[r].op \in {"stream", "view"}
    /\ reqs[r].pc = "view"
    /\ LET rows == ViewRows(reqs[r].session_id) IN
       IF Cardinality(rows) > 1
       THEN reqs' = [reqs EXCEPT ![r].pc = "done", ![r].after = Recorded,
                                 ![r].exc = MultipleResultsFound,
                                 ![r].resp = ErrorResponse(500)]
       ELSE IF rows # {}
       THEN reqs' = [reqs EXCEPT ![r].pc = AfterView(r), ![r].after = Recorded,
                                 ![r].found = CHOOSE q \in rows : TRUE]
       ELSE reqs' = [reqs EXCEPT ![r].pc = "count", ![r].after = Recorded]
    /\ UNCHANGED <<video, usess, store, apiPc, file, up, jobs, del, lastFinal, views>>

\* record_video_view lines 488-499: the new view session is added and the
\* Video is taken with db.get(Video, video_id).  A session that has loaded the
\* Video returns that object with the attributes it was loaded with, without
\* a query: this is so in the route, whose services share one database
\* session (both depend on get_async_db, expire_on_commit=False) that loaded
\* the Video at line 171.  A session that has not loaded it reads the row.
RecordViewGet(r) ==
    /\ reqs[r].op \in {"stream", "view"}
    /\ reqs[r].pc = "count"
    /\ reqs' = [reqs EXCEPT ![r].pc = "commit",
                            ![r].row = IF reqs[r].row.exists THEN reqs[r].row
                                       ELSE RowOf(video)]
    /\ UNCHANGED <<video, usess, store, apiPc, file, up, jobs, del, lastFinal, views>>

\* record_video_view lines 500-503: view_count of the Video object plus one,
\* when there is a Video object, and the commit, which inserts the view
\* session and writes the new count.  The insert fails on the foreign key
\* when the Video row is not there.
RecordViewCommit(r) ==
    /\ reqs[r].op \in {"stream", "view"}
    /\ reqs[r].pc = "commit"
    /\ IF video.exists
       THEN /\ views' = [views EXCEPT ![r] =
                            [NoView EXCEPT !.exists = TRUE,
                                           !.session_id = reqs[r].session_id]]
            /\ video' = IF reqs[r].row.exists
                        THEN [video EXCEPT !.view_count = reqs[r].row.view_count + 1]
                        ELSE video
            /\ reqs' = [reqs EXCEPT
                          ![r].pc = AfterView(r), ![r].found = r,
                          ![r].row.view_count = IF reqs[r].row.exists THEN @ + 1 ELSE @]
       ELSE /\ reqs' = [reqs EXCEPT ![r].pc = "done", ![r].exc = IntegrityError,
                                    ![r].resp = ErrorResponse(500)]
            /\ UNCHANGED <<video, views>>
    /\ UNCHANGED <<usess, store, apiPc, file, up, jobs, del, lastFinal>>

\* line 191, stream_video_content lines 222-231: the select returns the Video
\* object the session already holds, with the attributes it was loaded with,
\* or None when the row is gone; then the object is read from the store.  The
\* exceptions are caught at line 238 and answered with status 500.
StreamFetch(r) ==
    /\ reqs[r].op = "stream"
    /\ reqs[r].pc = "fetch"
    /\ IF ~video.exists \/ reqs[r].row.status # COMPLETED
       THEN reqs' = [reqs EXCEPT ![r].pc = "done",
                                 ![r].exc = "Streaming failed: " \o NotReady,
                                 ![r].resp = ErrorResponse(500)]
       ELSE IF ~ObjectExists(store, reqs[r].row.file_path)
       THEN reqs' = [reqs EXCEPT ![r].pc = "done",
                                 ![r].exc = "Streaming failed: " \o FileNotFound,
                                 ![r].resp = ErrorResponse(500)]
       ELSE reqs' = [reqs EXCEPT ![r].pc = "respond",
                                 ![r].content =
                                     Bytes[ObjectData(store, reqs[r].row.file_path)]]
    /\ UNCHANGED <<video, usess, store, apiPc, file, up, jobs, del, lastFinal, views>>

\* lines 193-242: the response for the Range header of the request
StreamRespond(r, range_header) ==
    /\ reqs[r].op = "stream"
    /\ reqs[r].pc = "respond"
    /\ LET out == RangeResponse(reqs[r].content, range_header) IN
       reqs' = [reqs EXCEPT ![r].pc = "done", ![r].range = range_header,
                            ![r].exc = out.exc,
                            ![r].resp = IF out.exc = NULL THEN out.resp
                                        ELSE ErrorResponse(500)]
    /\ UNCHANGED <<video, usess, store, apiPc, file, up, jobs, del, lastFinal, views>>

(* ---------------------------------------------------- GET /{video_id}/url *)
\* presigned_get_object signs the name locally
PresignedUrl(object_name) == "http://minio/videos/" \o object_name \o "?X-Amz-Signature"

\* get_video_url lines 287-295 and get_video_stream_url lines 206-218: every
\* exception of the service, its 404 included, is caught by the route and
\* raised again with status 500
UrlRequest(r) ==
    /\ reqs[r].pc = "idle"
    /\ IF ~video.exists \/ video.status # COMPLETED
       THEN reqs' = [reqs EXCEPT ![r].op = "url", ![r].pc = "done",
                                 ![r].row = RowOf(video),
                                 ![r].exc = NotReady,
                                 ![r].resp = ErrorResponse(500)]
       ELSE \E ok \in BOOLEAN :
                reqs' = [reqs EXCEPT
                    ![r].op = "url", ![r].pc = "done", ![r].row = RowOf(video),
                    ![r].exc = IF ok THEN NULL
                               ELSE "500: Failed to generate access URL: S3Error",
                    ![r].resp = IF ok
                                THEN [NoResponse EXCEPT
                                        !.status = 200,
                                        !.url = PresignedUrl(video.file_path)]
                                ELSE ErrorResponse(500)]
    /\ UNCHANGED <<video, usess, store, apiPc, file, up, jobs, del, lastFinal, views>>

(* ---------------------------------------------- POST /{video_id}/progress *)
\* the current_time values a client reports, in seconds (VideoProgressRequest
\* admits any number >= 0); with the duration of 12 seconds of the "good"
\* payload the percentages are whole numbers
Times == {0, 3, 12, 15}

\* update_progress with is_completed following the percentage both ways
UpdateProgressReset(view, current_time, video_duration) ==
    LET completion_percentage ==
            IF video_duration > 0 THEN (current_time * 100) \div video_duration ELSE 0
    IN [view EXCEPT !.current_time = current_time,
                    !.completion_percentage = completion_percentage,
                    !.is_completed = completion_percentage >= 95]

\* VideoViewSession.update_progress
UpdateProgress(view, current_time, video_duration) ==
    LET completion_percentage ==
            IF video_duration > 0 THEN (current_time * 100) \div video_duration ELSE 0
    IN [view EXCEPT !.current_time = current_time,
                    !.completion_percentage = completion_percentage,
                    !.is_completed = IF completion_percentage >= 95 THEN TRUE ELSE @]

\* "if video.duration": None and 0 are false
DurationKnown(duration) == duration # NullNum /\ duration # 0

\* update_video_progress without the test of line 242
ProgressBeginNoCheck(r, session_ids) ==
    /\ NextRequest(r)
    /\ \E sid \in session_ids, t \in Times :
        reqs' = [reqs EXCEPT ![r].op = "progress", ![r].pc = "select",
                             ![r].session_id = sid, ![r].time = t,
                             ![r].row = RowOf(video)]
    /\ UNCHANGED <<video, usess, store, apiPc, file, up, jobs, del, lastFinal, views>>

\* update_video_progress lines 241-245: load the Video, 404 when there is none;
\* the session_id of the body is one of session_ids
ProgressBegin(r, session_ids) ==
    /\ NextRequest(r)
    /\ \E sid \in session_ids, t \in Times :
        IF ~video.exists
        THEN reqs' = [reqs EXCEPT ![r].op = "progress", ![r].pc = "done",
                                  ![r].session_id = sid, ![r].time = t,
                                  ![r].row = RowOf(video),
                                  ![r].exc = "404: Video not found",
                                  ![r].resp = ErrorResponse(404)]
        ELSE reqs' = [reqs EXCEPT ![r].op = "progress", ![r].pc = "select",
                                  ![r].session_id = sid, ![r].time = t,
                                  ![r].row = RowOf(video)]
    /\ UNCHANGED <<video, usess, store, apiPc, file, up, jobs, del, lastFinal, views>>

\* lines 248-254: select the view session of the pair
ProgressSelect(r) ==
    /\ reqs[r].op = "progress"
    /\ reqs[r].pc = "select"
    /\ LET rows == ViewRows(reqs[r].session_id) IN
       IF Cardinality(rows) > 1
       THEN reqs' = [reqs EXCEPT ![r].pc = "done",
                                 ![r].exc = MultipleResultsFound,
                                 ![r].resp = ErrorResponse(500)]
       ELSE IF rows # {}
       THEN reqs' = [reqs EXCEPT ![r].pc = "save",
                                 ![r].found = CHOOSE q \in rows : TRUE]
       ELSE reqs' = [reqs EXCEPT ![r].pc = "save", ![r].found = 0]
    /\ UNCHANGED <<video, usess, store, apiPc, file, up, jobs, del, lastFinal, views>>

\* the text of the pydantic ValidationError for the required field that the
\* route does not pass
ResponseInvalid == "1 validation error for VideoProgressResponse: last_accessed Field required"

\* lines 256-270: create the view session when the select found none, update
\* its progress when the Video has a duration, commit.  The commit inserts
\* the new row or updates the columns update_progress assigned; it fails
\* when the Video row (insert) or the view session row (update) is gone.
\* The route (videos.py 311-316) then constructs VideoProgressResponse
\* without last_accessed, which the schema requires: the constructor raises
\* and the request is answered with status 500.
ProgressCommit(r) ==
    /\ reqs[r].op = "progress"
    /\ reqs[r].pc = "save"
    /\ LET q == IF reqs[r].found = 0 THEN r ELSE reqs[r].found
           view == IF reqs[r].found = 0
                   THEN [NoView EXCEPT !.exists = TRUE,
                                       !.session_id = reqs[r].session_id]
                   ELSE views[q]
           gone == IF reqs[r].found = 0 THEN ~video.exists ELSE ~views[q].exists
       IN IF gone
          THEN /\ reqs' = [reqs EXCEPT ![r].pc = "done", ![r].exc = IntegrityError,
                                       ![r].resp = ErrorResponse(500)]
               /\ UNCHANGED views
          ELSE /\ views' = [views EXCEPT ![q] =
                               IF DurationKnown(reqs[r].row.duration)
                               THEN UpdateProgress(view, reqs[r].time,
                                                   reqs[r].row.duration)
                               ELSE view]
               /\ reqs' = [reqs EXCEPT ![r].pc = "done", ![r].found = q,
                                       ![r].exc = ResponseInvalid,
                                       ![r].resp = ErrorResponse(500)]
    /\ UNCHANGED <<video, usess, store, apiPc, file, up, jobs, del, lastFinal>>

(* ----------------------------------------------- GET /{video_id}/progress *)
\* the body of the route for no view session: zeroed, without resume_position
ZeroedProgress == [NoProgress EXCEPT !.current_time = 0, !.completion_percentage = 0]

\* the body of the route for a view session
ProgressOf(view) ==
    [current_time |-> view.current_time,
     completion_percentage |-> view.completion_percentage,
     resume_position |-> view.current_time]

\* a progress read that creates the view session it does not find
GetProgressOrCreate(r, session_ids) ==
    /\ reqs[r].pc = "idle"
    /\ \E sid \in session_ids :
        LET rows == ViewRows(sid) IN
        /\ reqs' = [reqs EXCEPT
                ![r].op = "getprogress", ![r].pc = "done", ![r].session_id = sid,
                ![r].found = IF rows = {} THEN r ELSE CHOOSE q \in rows : TRUE,
                ![r].resp = [NoResponse EXCEPT !.status = 200,
                                               !.progress = ZeroedProgress]]
        /\ views' = IF rows = {}
                    THEN [views EXCEPT ![r] = [NoView EXCEPT !.exists = TRUE,
                                                             !.session_id = sid]]
                    ELSE views
    /\ UNCHANGED <<video, usess, store, apiPc, file, up, jobs, del, lastFinal>>

\* get_video_progress of the route (lines 327-340) and of the service (lines
\* 276-282): one select and no commit; scalar_one_or_none raises when the pair
\* has two rows, and the route does not catch it
GetProgress(r, session_ids) ==
    /\ reqs[r].pc = "idle"
    /\ \E sid \in session_ids :
        LET rows == ViewRows(sid) IN
        reqs' = [reqs EXCEPT
            ![r].op = "getprogress", ![r].pc = "done", ![r].session_id = sid,
            ![r].found = IF Cardinality(rows) = 1 THEN CHOOSE q \in rows : TRUE ELSE 0,
            ![r].exc = IF Cardinality(rows) > 1 THEN MultipleResultsFound ELSE NULL,
            ![r].resp =
                IF Cardinality(rows) > 1 THEN ErrorResponse(500)
                ELSE IF rows = {}
                THEN [NoResponse EXCEPT !.status = 200, !.progress = ZeroedProgress]
                ELSE [NoResponse EXCEPT
                        !.status = 200,
                        !.progress = ProgressOf(views[CHOOSE q \in rows : TRUE])]]
    /\ UNCHANGED <<video, usess, store, apiPc, file, up, jobs, del, lastFinal, views>>

(* -------------------------- celery task generate_video_thumbnail (175-229) *)
VideoIdNotFound == "Video " \o VideoId \o " not found"
ThumbnailFailed == "Failed to generate thumbnail"
ThumbnailStarted == "Thumbnail generation started"

\* positions of a delivery of the stand-alone thumbnail task
ThumbRunning == {"t_fetch", "t_thumb", "t_commit"}
ThumbPcs == {"t_queued", "t_done", "t_failed"} \cup ThumbRunning

\* videos.py get_video_thumbnail: 404 without a Video, the task is queued
\* when the Video has no thumbnail_path, else the object is read and returned
\* as image/jpeg (its bytes are not modelled) or the read fails with 500
ThumbnailRequest(r) ==
    /\ NextRequest(r)
    /\ IF ~video.exists
       THEN /\ reqs' = [reqs EXCEPT ![r].op = "thumbnail", ![r].pc = "done",
                                    ![r].resp = ErrorResponse(404)]
            /\ UNCHANGED jobs
       ELSE IF video.thumbnail_path = NoPath
       THEN /\ FreeJobs # {}
            /\ jobs' = [jobs EXCEPT ![NextJob].pc = "t_queued"]
            /\ reqs' = [reqs EXCEPT ![r].op = "thumbnail", ![r].pc = "done",
                                    ![r].exc = ThumbnailStarted,
                                    ![r].resp = [NoResponse EXCEPT !.status = 200]]
       ELSE /\ \E ok \in BOOLEAN :
                reqs' = [reqs EXCEPT ![r].op = "thumbnail", ![r].pc = "done",
                             ![r].resp =
                                 IF ok /\ ObjectExists(store, video.thumbnail_path)
                                 THEN [NoResponse EXCEPT !.status = 200]
                                 ELSE ErrorResponse(500)]
            /\ UNCHANGED jobs
    /\ UNCHANGED <<video, usess, store, apiPc, file, up, del, lastFinal, views>>

\* lines 182-187: load the row; no row or no file_path raises
ThumbStart(j) ==
    /\ jobs[j].pc = "t_queued"
    /\ jobs' = IF ~video.exists
               THEN [jobs EXCEPT ![j].pc = "t_failed", ![j].err = VideoIdNotFound]
               ELSE IF video.file_path = NoPath
               THEN [jobs EXCEPT ![j].pc = "t_failed",
                                 ![j].err = "Video file path not found"]
               ELSE [jobs EXCEPT ![j].pc = "t_fetch"]
    /\ UNCHANGED <<video, usess, store, apiPc, file, up, del, lastFinal, views, reqs>>

\* lines 189-197: download the blob named by the file_path of the row
ThumbFetch(j) ==
    /\ jobs[j].pc = "t_fetch"
    /\ \E ok \in BOOLEAN :
        IF ok /\ ObjectExists(store, VideoPath(VideoId, StoredName))
        THEN jobs' = [jobs EXCEPT ![j].pc = "t_thumb",
                                  ![j].data = ObjectData(store, VideoPath(VideoId, StoredName))]
        ELSE jobs' = [jobs EXCEPT ![j].pc = "t_failed", ![j].err = FileNotFound]
    /\ UNCHANGED <<video, usess, store, apiPc, file, up, del, lastFinal, views, reqs>>

\* lines 199-203 and 216-217: generate_video_thumbnail_sync puts the object
\* and returns its path, or returns None and the task raises
ThumbGenerate(j) ==
    /\ jobs[j].pc = "t_thumb"
    /\ \E ok \in BOOLEAN :
        IF ok /\ FrameAvailable(jobs[j].data)
        THEN /\ store' = PutObject(store, ThumbnailPath(VideoId), ThumbnailOf(jobs[j].data))
             /\ jobs' = [jobs EXCEPT ![j].pc = "t_commit",
                                     ![j].thumb = ThumbnailPath(VideoId)]
        ELSE /\ jobs' = [jobs EXCEPT ![j].pc = "t_failed", ![j].err = ThumbnailFailed]
             /\ UNCHANGED store
    /\ UNCHANGED <<video, usess, apiPc, file, up, del, lastFinal, views, reqs>>

\* a faulty commit that, like the thumbnail step of the processing task,
\* writes processing_progress as well; C25_ThumbnailFrame has to reject it
ThumbCommitProgress(j) ==
    /\ jobs[j].pc = "t_commit"
    /\ IF ~video.exists
       THEN /\ jobs' = [jobs EXCEPT ![j].pc = "t_failed", ![j].err = StaleRow]
            /\ UNCHANGED video
       ELSE /\ video' = [video EXCEPT !.thumbnail_path = jobs[j].thumb,
                                      !.thumbnail_generated = TRUE,
                                      !.processing_progress = 80]
            /\ jobs' = [jobs EXCEPT ![j].pc = "t_done"]
    /\ UNCHANGED <<usess, store, apiPc, file, up, del, lastFinal, views, reqs>>

\* lines 205-208: the two assignments and the commit, which updates the
\* columns assigned and no other
ThumbCommit(j) ==
    /\ jobs[j].pc = "t_commit"
    /\ IF ~video.exists
       THEN /\ jobs' = [jobs EXCEPT ![j].pc = "t_failed", ![j].err = StaleRow]
            /\ UNCHANGED video
       ELSE /\ video' = [video EXCEPT !.thumbnail_path = jobs[j].thumb,
                                      !.thumbnail_generated = TRUE]
            /\ jobs' = [jobs EXCEPT ![j].pc = "t_done"]
    /\ UNCHANGED <<usess, store, apiPc, file, up, del, lastFinal, views, reqs>>

ThumbSteps(j) ==
    \/ ThumbStart(j)
    \/ ThumbFetch(j)
    \/ ThumbGenerate(j)
    \/ ThumbCommit(j)

(* ------------------------------------------------------- specifications *)
UploadSteps(c) ==
    \/ UploadBegin(c)
    \/ UploadSetUploading(c)
    \/ UploadPut(c)
    \/ UploadCommit(c)
    \/ UploadFailed(c)
    \/ InlineFetch(c)
    \/ InlineThumb(c)
    \/ InlineThumbCommit(c)
    \/ InlineComplete(c)
    \/ InlineFailed(c)

JobSteps(j) ==
    \/ JobStart(j)
    \/ JobFetch(j)
    \/ JobExtract(j)
    \/ JobThumb(j)
    \/ JobCommitThumb(j)
    \/ JobComplete(j)
    \/ JobHandler(j)

\* the ingestion side of the program: create, upload, the processing workers,
\* delete and the periodic clean-up
Next ==
    \/ CreateVideo
    \/ UploadSteps(ApiCaller)
    \/ ApiEnqueue
    \/ \E j \in JobIds : JobSteps(j)
    \/ Redeliver
    \/ \E j \in JobIds : SoftTimeout(j)
    \/ \E j \in JobIds : HardTimeout(j)
    \/ \E j \in JobIds : WorkerLost(j)
    \/ DeleteBegin
    \/ DeleteBlob
    \/ DeleteThumbnail
    \/ DeleteCommit
    \/ PeriodicCleanup

Spec == Init /\ [][Next]_vars

\* upload_video_file called by several callers on the Video just created
NextBeginUpload ==
    \/ CreateVideo
    \/ \E c \in Callers : UploadSteps(c)

SpecBeginUpload == Init /\ [][NextBeginUpload]_vars

\* the upload request and the processing jobs, without deletes, clean-up,
\* time limits or worker loss
NextPipeline ==
    \/ CreateVideo
    \/ UploadSteps(ApiCaller)
    \/ ApiEnqueue
    \/ \E j \in JobIds : JobSteps(j)
    \/ Redeliver

SpecPipeline == Init /\ [][NextPipeline]_vars

\* the upload request and the workers with their time limits and losses.  A
\* running request goes on and a worker takes a queued delivery and runs the
\* task to its end unless it is killed: weak fairness of the request's steps
\* and of each delivery's steps.  Redelivery, time limits and worker loss are
\* events that may happen and carry no fairness.
NextWorkers ==
    \/ NextPipeline
    \/ \E j \in JobIds : SoftTimeout(j)
    \/ \E j \in JobIds : HardTimeout(j)
    \/ \E j \in JobIds : WorkerLost(j)

SpecWorkers ==
    /\ Init /\ [][NextWorkers]_vars
    /\ WF_vars(UploadSteps(ApiCaller))
    /\ WF_vars(ApiEnqueue)
    /\ \A j \in JobIds : WF_vars(JobSteps(j))

\* the steps of a record_video_view call
RecordViewSteps(r) ==
    \/ RecordViewSelect(r)
    \/ RecordViewGet(r)
    \/ RecordViewCommit(r)

\* the steps of a GET /stream request whose Range header is one of headers
StreamSteps(r, headers) ==
    \/ StreamBegin(r)
    \/ RecordViewSteps(r)
    \/ StreamFetch(r)
    \/ \E h \in headers : StreamRespond(r, h)

\* the steps of a POST /progress request for one of session_ids
ProgressSteps(r, session_ids) ==
    \/ ProgressBegin(r, session_ids)
    \/ ProgressSelect(r)
    \/ ProgressCommit(r)

\* an upload, then one stream request with any Range header
NextRange ==
    \/ CreateVideo
    \/ UploadSteps(ApiCaller)
    \/ StreamSteps(1, RangeHeaders)

SpecRange == Init /\ [][NextRange]_vars

\* an upload, a delete, one stream request and url requests at any moment
NextStream ==
    \/ CreateVideo
    \/ UploadSteps(ApiCaller)
    \/ DeleteBegin
    \/ DeleteBlob
    \/ DeleteThumbnail
    \/ DeleteCommit
    \/ StreamSteps(1, {NoRange})
    \/ \E r \in Requests \ {1} : UrlRequest(r)

SpecStream == Init /\ [][NextStream]_vars

\* an upload, and views recorded side by side by stream requests and by
\* direct calls of record_video_view
NextViews ==
    \/ CreateVideo
    \/ UploadSteps(ApiCaller)
    \/ \E r \in Requests : StreamSteps(r, {NoRange})
    \/ \E r \in Requests : RecordViewCall(r)

SpecViews == Init /\ [][NextViews]_vars

\* an upload and progress reports of one viewer at any moment
NextProgress ==
    \/ CreateVideo
    \/ UploadSteps(ApiCaller)
    \/ \E r \in Requests : ProgressSteps(r, {"s1"})

SpecProgress == Init /\ [][NextProgress]_vars

\* an upload, the progress reports of one request and progress reads by the
\* other requests at any moment
NextRead ==
    \/ CreateVideo
    \/ UploadSteps(ApiCaller)
    \/ ProgressSteps(1, {"s1"})
    \/ \E r \in Requests \ {1} : GetProgress(r, SessionIds)

SpecRead == Init /\ [][NextRead]_vars

\* the upload request, the processing jobs and the stand-alone thumbnail
\* jobs that thumbnail requests queue
NextThumb ==
    \/ CreateVideo
    \/ UploadSteps(ApiCaller)
    \/ ApiEnqueue
    \/ \E j \in JobIds : JobSteps(j)
    \/ \E r \in Requests : ThumbnailRequest(r)
    \/ \E j \in JobIds : ThumbSteps(j)

SpecThumb == Init /\ [][NextThumb]_vars


\* an upload, progress reports of one viewer and stream requests of later
\* requests
NextWatch ==
    \/ CreateVideo
    \/ UploadSteps(ApiCaller)
    \/ ProgressSteps(1, {"s1"})
    \/ \E r \in Requests \ {1} : StreamSteps(r, {NoRange})

SpecWatch == Init /\ [][NextWatch]_vars


(* ------------------------------------------------------------ properties *)
\* an upload_video_file call is between its first commit and its return
UploadActive == \E c \in Callers : up[c].pc \notin {"idle", "returned", "failed"}
\* a delivery is waiting for a worker or running in one
JobActive == \E j \in JobIds : jobs[j].pc \in {"queued"} \cup Running
WorkPending == UploadActive \/ JobActive

\* C1: every change of a Video's status is Pending -> Uploading, Uploading ->
\* Processing, Processing -> Completed, Processing -> Failed, or a change to
\* Deleted made by the delete request.  Uploading -> Failed, which the upload
\* failure rule of the same specification prescribes, is admitted as well, so
\* that a violation is a change that no rule of the specification allows.
ClaimedTransitions ==
    {<<PENDING, UPLOADING>>, <<UPLOADING, PROCESSING>>,
     <<PROCESSING, COMPLETED>>, <<PROCESSING, FAILED>>, <<UPLOADING, FAILED>>}
C1_StatusTransitions ==
    [][(video.exists /\ video'.exists /\ video'.status # video.status) =>
          \/ <<video.status, video'.status>> \in ClaimedTransitions
          \/ (video.status # DELETED /\ video'.status = DELETED /\ del.pc = "commit")]_vars

\* C2: of the upload_video_file calls given the Video while it was still
\* Pending, at most one returns a session; the others end in an error
Succeeded(c) == up[c].pc = "returned" /\ usess[c].status = COMPLETED
C2_SingleActiveUpload ==
    Cardinality({c \in Callers : up[c].seen = PENDING /\ Succeeded(c)}) <= 1

\* C3: when the upload request returns after a successful put, the session is
\* Completed, the Video is Processing with uploaded_at set, and a processing
\* job is queued
C3_ProcessingAtReturn ==
    [][(apiPc = "created" /\ apiPc' = "done") =>
          /\ usess'[ApiCaller].status = COMPLETED
          /\ video'.status = PROCESSING
          /\ video'.uploaded_at
          /\ \E j \in JobIds : jobs'[j].pc = "queued"]_vars

\* C4: the handler of a failed put leaves the session and the Video Failed
\* with the same error message, and no processing job is ever enqueued for an
\* upload whose put failed
C4_UploadFailure ==
    /\ [][\A c \in Callers :
            (up[c].pc = "putfailed" /\ up'[c].pc = "failed") =>
                /\ usess'[c].status = FAILED
                /\ video'.status = FAILED
                /\ usess'[c].error_message # NULL
                /\ video'.error_message = usess'[c].error_message]_vars
    /\ [](up[ApiCaller].pc \in {"putfailed", "failed"} =>
            \A j \in JobIds : jobs[j].pc = "none")
C4_Witness ==
    /\ up[ApiCaller].pc = "failed"
    /\ usess[ApiCaller].status = FAILED
    /\ video.status = FAILED
    /\ video.error_message = UploadError
    /\ usess[ApiCaller].error_message = UploadError

\* C5: a Video with status Completed has processing_progress 100 and
\* processed_at set, in every reachable state
C5_CompletedIsFinished ==
    (video.exists /\ video.status = COMPLETED) =>
        (video.processing_progress = 100 /\ video.processed_at)

\* C6: a job in which a pipeline step failed does not end Completed; for the
\* enabled thumbnail step: no job completes without having stored a thumbnail
C6_StepFailureFailsJob ==
    \A j \in JobIds :
        (ENABLE_VIDEO_THUMBNAILS /\ jobs[j].pc = "done") => jobs[j].thumb # NoPath

\* C7: with workers that keep running and a queue that delivers, a Video in
\* Processing eventually is Completed, Failed or Deleted, a lost worker
\* included
C7_ProcessingEnds ==
    (video.exists /\ video.status = PROCESSING)
        ~> (video.status \in {COMPLETED, FAILED, DELETED})

\* C8: a job that ran into a time limit leaves the Video Failed with the
\* time-out as its error: once a delivery was killed by the hard limit and
\* nothing else is pending the Video is Failed, and a delivery in which the
\* soft limit fired ends in the handler with that exception
C8_TimeLimitFails ==
    \A j \in JobIds :
        /\ (jobs[j].pc = "killed" /\ ~WorkPending /\ del.pc = "idle" /\ video.exists) =>
                video.status \in {FAILED, DELETED}
        /\ (jobs[j].soft /\ jobs[j].pc \in Finished) =>
                (jobs[j].pc = "failed" /\ jobs[j].err = SoftTimeLimitExceeded)

\* C9: once the deliveries that started have all finished, the status of the
\* Video is the outcome written by the final status commit that came last
AllFinished ==
    /\ \A j \in JobIds : jobs[j].pc \in {"none", "queued"} \cup Finished
    /\ \E j \in JobIds : jobs[j].pc \in Finished
C9_LastCommitWins == (AllFinished /\ video.exists) => video.status = lastFinal
\* two deliveries that overlapped and ended differently
Overlapped(j, k) == j # k /\ j \notin jobs[k].after /\ k \notin jobs[j].after
C9_Witness ==
    /\ AllFinished
    /\ \E j, k \in JobIds :
        /\ Overlapped(j, k)
        /\ jobs[j].pc = "done" /\ jobs[k].pc = "failed"
        /\ video.status = FAILED /\ lastFinal = FAILED

\* C10: two runs of the job in sequence that read the same blob and get the
\* same answers from the object store and the inspector leave the same
\* status, duration, width, height, fps and thumbnail_path, and the bucket
\* holds at most one thumbnail object
Alone(j) ==
    \A m \in JobIds \ {j} :
        jobs[m].pc \in {"none", "queued"} \/ m \in jobs[j].after \/ j \in jobs[m].after
InSequence(k, j) ==
    /\ jobs[k].pc \in Finished /\ jobs[j].pc \in Finished
    /\ jobs[j].after = jobs[k].after \cup {k}
    /\ Alone(k) /\ Alone(j)
SameObservations(k, j) ==
    /\ jobs[k].data = jobs[j].data
    /\ jobs[k].err = jobs[j].err
    /\ (jobs[k].thumb = NoPath) <=> (jobs[j].thumb = NoPath)
Thumbnails == {o \in store : o.path # VideoPath(VideoId, StoredName)}
C10_Idempotent ==
    \A k, j \in JobIds :
        (k # j /\ InSequence(k, j) /\ SameObservations(k, j)) =>
            /\ jobs[k].result = jobs[j].result
            /\ Cardinality(Thumbnails) <= 1
C10_Witness ==
    \E k, j \in JobIds :
        /\ k # j /\ InSequence(k, j) /\ SameObservations(k, j)
        /\ jobs[k].pc = "done" /\ jobs[j].pc = "done"
        /\ jobs[j].thumb = ThumbnailPath(VideoId)
        /\ jobs[j].result.thumbnail_path = ThumbnailPath(VideoId)
        /\ jobs[j].result.status = COMPLETED
        /\ jobs[j].result.duration = 12

(* ------------------------------------------------- streaming properties *)
\* the Video a request loaded was missing or not Completed
NotStreamable(r) == ~reqs[r].row.exists \/ reqs[r].row.status # COMPLETED

\* C11: a stream request returns content bytes only when the Video it loaded
\* was present with status Completed; a request that finds the Video missing
\* or in any other status is answered 404 Not Found, has read no object and
\* returns no bytes
C11_StreamOnlyCompleted ==
    \A r \in Requests :
        reqs[r].op = "stream" =>
            /\ (reqs[r].content # <<>> \/ reqs[r].resp.body # <<>>) => ~NotStreamable(r)
            /\ NotStreamable(r) =>
                   /\ reqs[r].pc = "done"
                   /\ reqs[r].resp = ErrorResponse(404)
                   /\ reqs[r].content = <<>>

\* a stream request on a Video that is there but not Completed has been
\* answered
C11_Witness ==
    \E r \in Requests :
        /\ reqs[r].op = "stream"
        /\ reqs[r].pc = "done"
        /\ reqs[r].row.exists
        /\ reqs[r].row.status \in {PENDING, UPLOADING, PROCESSING, FAILED, DELETED}
        /\ reqs[r].resp.status = 404

\* the response of the url route when the object store fails to sign
StorageFailure == ErrorResponse(500)

\* C12: a url request on a Video that is missing or not Completed is answered
\* with the not-found status 404, which differs from the answer to a storage
\* or internal error, and carries no url
C12_PresignNotReady ==
    \A r \in Requests :
        reqs[r].op = "url" /\ reqs[r].pc = "done" /\ NotStreamable(r) =>
            /\ reqs[r].resp.status = 404
            /\ reqs[r].resp # StorageFailure
            /\ reqs[r].resp.url = ""

\* C16: a stream request that is about to read the object, has read it or has
\* returned bytes has a view session recorded for its session id, and no url
\* request changes a view session or the view counter
C16_ViewBeforeContent ==
    /\ [](\A r \in Requests :
            reqs[r].op = "stream"
            /\ (reqs[r].pc \in {"fetch", "respond"} \/ reqs[r].content # <<>>
                \/ reqs[r].resp.body # <<>>)
            => ViewRows(reqs[r].session_id) # {})
    /\ [][\A r \in Requests :
            UrlRequest(r) => views' = views /\ video'.view_count = video.view_count]_vars

\* a stream request has returned the bytes of the object and a url request
\* has returned a url
C16_Witness ==
    /\ \E r \in Requests :
        /\ reqs[r].op = "stream"
        /\ reqs[r].resp.status = 200
        /\ reqs[r].resp.body = Bytes["good"]
        /\ views[r].exists
    /\ \E r \in Requests : reqs[r].op = "url" /\ reqs[r].resp.url # ""

(* ----------------------------------------------------- range properties *)
\* a stream request has read the object and answered
Served(r) == reqs[r].op = "stream" /\ reqs[r].pc = "done" /\ reqs[r].content # <<>>

\* the Content-Range value 'bytes s-e/L'
ContentRange(s, e, L) ==
    "bytes " \o ToString(s) \o "-" \o ToString(e) \o "/" \o ToString(L)

\* C13: for an object of length L, Range bytes=s-e with 0 <= s <= e <= L-1 is
\* answered 206 with Content-Range 'bytes s-e/L' and exactly the bytes s..e;
\* Range bytes=s- with s <= L-1 is answered with the bytes s..L-1; no Range
\* header is answered 200 with all L bytes
C13_ValidRanges ==
    \A r \in Requests :
        Served(r) =>
            LET content == reqs[r].content
                L == Len(content)
                resp == reqs[r].resp
            IN /\ \A s \in 0..MaxPos, e \in 0..MaxPos :
                    s <= e /\ e <= L - 1 /\ reqs[r].range = RangeHeader(s, e) =>
                        /\ resp.status = 206
                        /\ resp.content_range = ContentRange(s, e, L)
                        /\ resp.body = SubSeq(content, s + 1, e + 1)
                        /\ Len(resp.body) = e - s + 1
               /\ \A s \in 0..MaxPos :
                    s <= L - 1 /\ reqs[r].range = OpenRange(s) =>
                        /\ resp.status = 206
                        /\ resp.body = SubSeq(content, s + 1, L)
               /\ reqs[r].range = NoRange =>
                        /\ resp.status = 200
                        /\ resp.body = content

\* the bytes 10..11 of the 12-byte object have been served
C13_Witness ==
    \E r \in Requests :
        /\ Served(r)
        /\ Len(reqs[r].content) = 12
        /\ reqs[r].range = RangeHeader(10, 11)
        /\ reqs[r].resp.status = 206

\* C14: Range bytes=s-e with s <= L-1 and e >= L is answered 206 with the end
\* clamped to L-1: Content-Range is 'bytes s-(L-1)/L' and the body has
\* (L-1) - s + 1 bytes
C14_EndClamped ==
    \A r \in Requests :
        Served(r) =>
            LET L == Len(reqs[r].content)
                resp == reqs[r].resp
            IN \A s \in 0..MaxPos, e \in 0..MaxPos :
                    s <= L - 1 /\ e >= L /\ reqs[r].range = RangeHeader(s, e) =>
                        /\ resp.status = 206
                        /\ resp.content_range = ContentRange(s, L - 1, L)
                        /\ Len(resp.body) = (L - 1) - s + 1

\* C15: a malformed Range header is answered exactly as no Range header is:
\* status 200 with the whole object
C15_MalformedAsAbsent ==
    \A r \in Requests :
        Served(r) /\ reqs[r].range \in MalformedHeaders =>
            reqs[r].resp = RangeResponse(reqs[r].content, NoRange).resp

(* ------------------------------------------------------ view properties *)
\* the requests whose record_video_view call has begun
Called == {r \in Requests : reqs[r].op \in {"stream", "view"}
                            /\ reqs[r].pc \in {"count", "commit", "fetch", "respond", "done"}
                            /\ reqs[r].session_id # ""}

\* every record_video_view call made so far is for one (video, session) pair
OnePair ==
    \A r, q \in Requests :
        reqs[r].op \in {"stream", "view"} /\ reqs[q].op \in {"stream", "view"}
        /\ reqs[r].session_id # "" /\ reqs[q].session_id # ""
        => reqs[r].session_id = reqs[q].session_id

\* the calls ran one after another: of two calls, one had returned when the
\* other began
OneAfterAnother ==
    \A r, q \in Called : r # q => r \in reqs[q].after \/ q \in reqs[r].after

\* the view session rows there are
AllViewRows == {q \in Requests : views[q].exists}

\* C17: after n >= 1 record_video_view calls for one (video, session) pair made
\* one after another the view counter has grown by exactly 1 and there is
\* exactly one view session for the pair; a call that begins after a call for
\* the same pair has returned inserts no row and writes no counter
C17_SequentialViews ==
    /\ OnePair /\ OneAfterAnother /\ Recorded # {} =>
           /\ video.view_count = 1
           /\ Cardinality(AllViewRows) = 1
    /\ \A r \in Requests :
           reqs[r].op \in {"stream", "view"}
           /\ (reqs[r].pc \in {"count", "commit"} \/ views[r].exists) =>
               \A q \in reqs[r].after : reqs[q].session_id # reqs[r].session_id

\* every request has recorded its view, one after another, for one pair
C17_Witness ==
    /\ Recorded = Requests
    /\ OnePair
    /\ OneAfterAnother
    /\ video.view_count = 1

C19_CompletedStays ==
    [][\A q \in Requests :
          views[q].exists /\ views[q].is_completed /\ views'[q].exists
          => views'[q].is_completed]_vars

\* a completed view session has been rewound to a position below 95 percent
C19_Witness ==
    \E q \in Requests :
        /\ views[q].exists
        /\ views[q].is_completed
        /\ views[q].completion_percentage < 95
        /\ \E r \in Requests : reqs[r].op = "progress" /\ reqs[r].pc = "done"
                               /\ reqs[r].found = q /\ reqs[r].time < 12

Clamp(x, lo, hi) == IF x < lo THEN lo ELSE IF x > hi THEN hi ELSE x

\* C20: for a Video with a known positive duration the completion_percentage
\* of every view session equals current_time / duration * 100 clamped to
\* 0..100, so it is never above 100
C20_PercentageClamped ==
    \A q \in Requests :
        views[q].exists /\ video.exists /\ video.duration > 0 =>
            views[q].completion_percentage =
                Clamp((views[q].current_time * 100) \div video.duration, 0, 100)

\* C21: a progress report for a video id that has no Video is answered 404
\* Not Found at once, inserts no view session, and the step that answers it
\* changes no view session and no Video
C21_ProgressNotFound ==
    /\ [](\A r \in Requests :
            reqs[r].op = "progress" /\ ~reqs[r].row.exists =>
                /\ reqs[r].pc = "done"
                /\ reqs[r].resp = ErrorResponse(404)
                /\ ~views[r].exists)
    /\ [][\A r \in Requests :
            reqs'[r].op = "progress" /\ reqs[r].pc = "idle" /\ ~reqs'[r].row.exists
            => views' = views /\ video' = video]_vars

\* a progress report has been made before the Video was created
C21_Witness ==
    \E r \in Requests :
        /\ reqs[r].op = "progress"
        /\ ~reqs[r].row.exists
        /\ reqs[r].resp.status = 404

\* C22: a progress read changes no Video, no view session, no upload session
\* and no stored object; for a pair that has no view session it answers 200
\* with zeroed progress, and for a pair that has one it answers with the
\* position and percentage of that view session
C22_ProgressReadOnly ==
    /\ [][\A r \in Requests :
            reqs[r].pc = "idle" /\ reqs'[r].op = "getprogress" =>
                /\ UNCHANGED <<video, views, usess, store>>
                /\ reqs'[r].pc = "done"
                /\ ViewRows(reqs'[r].session_id) = {} =>
                       /\ reqs'[r].resp.status = 200
                       /\ reqs'[r].resp.progress = ZeroedProgress
                /\ \A q \in ViewRows(reqs'[r].session_id) :
                       /\ reqs'[r].resp.status = 200
                       /\ reqs'[r].resp.progress.current_time = views[q].current_time
                       /\ reqs'[r].resp.progress.completion_percentage
                              = views[q].completion_percentage]_vars

\* progress has been read for a pair without a view session and, by another
\* read or earlier, a view session with progress exists
C22_Witness ==
    /\ \E r \in Requests :
        /\ reqs[r].op = "getprogress"
        /\ reqs[r].found = 0
        /\ reqs[r].resp.progress = ZeroedProgress
    /\ \E q \in Requests : views[q].exists /\ views[q].current_time > 0

(* ---------------------------------------------------- delete properties *)
\* the step at which delete_video returns True
DeleteSucceeds == del.pc = "commit" /\ del'.pc = "idle" /\ video.exists

\* C23: when a delete reports success the Video has status Deleted and
\* neither its blob nor its thumbnail object is in the object store
C23_DeleteRemoves ==
    [][DeleteSucceeds =>
          /\ video'.status = DELETED
          /\ ~ObjectExists(store', video.file_path)
          /\ ~ObjectExists(store', ThumbnailPath(VideoId))]_vars

(* ----------------------------------------------------- failed videos stay *)
\* C24: once a Video has status Failed its record stays present; while no
\* upload, no processing job and no delete request is at work it keeps status
\* Failed and its error_message
C24_FailedStays ==
    [][(video.exists /\ video.status = FAILED) =>
          /\ video'.exists
          /\ (~WorkPending /\ del.pc = "idle") =>
                 /\ video'.status = FAILED
                 /\ video'.error_message = video.error_message]_vars

(* ------------------------------------------------- stand-alone thumbnails *)
\* a step taken by a delivery of the stand-alone thumbnail task
ThumbStep(j) == jobs[j].pc \in ThumbPcs /\ jobs'[j] # jobs[j]

\* C25: no step of a stand-alone thumbnail job, successful or failed and with
\* other thumbnail jobs or a processing job at work, changes the Video's
\* status or processing_progress; it changes no field other than
\* thumbnail_path, which it sets to thumbnails/{id}/thumbnail_{id}.jpg, and
\* thumbnail_generated
C25_ThumbnailFrame ==
    [][\A j \in JobIds : ThumbStep(j) =>
          /\ video'.status = video.status
          /\ video'.processing_progress = video.processing_progress
          /\ video' = [video EXCEPT !.thumbnail_path = video'.thumbnail_path,
                                    !.thumbnail_generated = video'.thumbnail_generated]
          /\ video'.thumbnail_path \in {video.thumbnail_path, ThumbnailPath(VideoId)}]_vars

\* a thumbnail job has written its path while a processing job for the same
\* Video was running, at progress 50
C25_Witness ==
    /\ \E j \in JobIds : jobs[j].pc = "t_done"
    /\ video.thumbnail_path = ThumbnailPath(VideoId)
    /\ video.status = PROCESSING
    /\ video.processing_progress = 50
    /\ \E j \in JobIds : jobs[j].pc \in Running

(* ------------------------------------------------------------ create_video *)
\* the step at which create_video returns or raises
CreateReturns == apiPc = "start" /\ apiPc' # "start"

\* what create_video persists when it accepts the file
Persisted ==
    /\ apiPc' = "created"
    /\ ~video.exists
    /\ video'.exists
    /\ video'.status = PENDING
    /\ video'.file_path = VideoPath(VideoId, StoredName)

\* C26: create_video fails and persists no Video exactly when the declared
\* size exceeds the maximum or the extension is outside the allow-list, and
\* in every other case persists one Video in Pending with its object path
C26_RejectsExactly ==
    [][CreateReturns =>
          IF file'.size > MAX_UPLOAD_SIZE \/ file'.ext \notin ALLOWED_VIDEO_EXTENSIONS
          THEN apiPc' = "rejected" /\ video' = video
          ELSE Persisted]_vars

\* C26 as the code has it: create_video fails and persists no Video exactly
\* when the declared size exceeds the maximum, the extension is outside the
\* allow-list or the declared content type is not one of the expected video
\* MIME types, and in every other case persists one Video in Pending with
\* its object path
C26_RejectsInvalid ==
    [][CreateReturns =>
          IF \/ file'.size > MAX_UPLOAD_SIZE
             \/ file'.ext \notin ALLOWED_VIDEO_EXTENSIONS
             \/ file'.ctype \notin ExpectedMimeTypes
          THEN apiPc' = "rejected" /\ video' = video
          ELSE Persisted]_vars

\* a file of allowed size and extension has been rejected for its content type
C26_Witness ==
    /\ apiPc = "rejected"
    /\ ~video.exists
    /\ file.size <= MAX_UPLOAD_SIZE
    /\ file.ext \in ALLOWED_VIDEO_EXTENSIONS
    /\ file.ctype \notin ExpectedMimeTypes

(* --------------------------------------------------------- upload sessions *)
\* VideoUploadSession.is_active
is_active(sess) == sess.status \in {PENDING, UPLOADING}
ActiveSessions == {c \in Callers : is_active(usess[c])}

\* C27: the Video never has more than one upload session that is Pending or
\* Uploading, and an upload_video_file call on a Video that has such a
\* session creates no session
C27_OneActiveSession ==
    /\ [](Cardinality(ActiveSessions) <= 1)
    /\ [][\A c \in Callers :
            (up[c].pc = "idle" /\ up'[c].pc # "idle" /\ ActiveSessions # {}) =>
                usess' = usess]_vars

JobBegins(j) == jobs[j].pc = "queued" /\ jobs'[j].pc # "queued"

\* C29: a processing job that starts on a Video whose status is not
\* Processing changes neither the status nor the metadata of the Video
C29_OnlyFromProcessing ==
    [][\A j \in JobIds :
          (JobBegins(j) /\ video.exists /\ video.status # PROCESSING) =>
              /\ video'.status = video.status
              /\ ResultOf(video') = ResultOf(video)]_vars

\* C30: processing_progress stays within 0..100, and it decreases only at
\* the step that starts a processing attempt, overlapping deliveries for the
\* same Video included
C30_ProgressMonotone ==
    /\ [](video.processing_progress \in 0..100)
    /\ [][(video.exists /\ video'.exists
            /\ video'.processing_progress < video.processing_progress) =>
                \E j \in JobIds : JobBegins(j)]_vars

(* ------------------------------------------------------- thumbnail paths *)
\* the step is taken by a generation that has put the thumbnail object: the
\* inline generation of the upload, a processing job or a thumbnail job
StoredByStepper ==
    \/ \E c \in Callers : up[c].pc = "inline_thumb_commit" /\ up'[c] # up[c]
    \/ \E j \in JobIds : /\ jobs[j].pc \in {"commit_thumb", "t_commit"}
                         /\ jobs[j].thumb = ThumbnailPath(VideoId)
                         /\ jobs'[j] # jobs[j]

\* C31: the thumbnail_path of a Video is unset or thumbnails/{id}/
\* thumbnail_{id}.jpg, and it is set only by a generation that has stored the
\* object at that path, which is in the store at that moment; a generation
\* that failed or was skipped leaves it as it was
C31_ThumbnailPathSet ==
    /\ [](video.thumbnail_path \in {NoPath, ThumbnailPath(VideoId)})
    /\ [][(video'.exists /\ video'.thumbnail_path # video.thumbnail_path) =>
              /\ video'.thumbnail_path = ThumbnailPath(VideoId)
              /\ StoredByStepper
              /\ ObjectExists(store, ThumbnailPath(VideoId))]_vars
    /\ [][\A j \in JobIds :
            (jobs[j].pc \in {"commit_thumb", "t_thumb"} /\ jobs[j].thumb = NoPath
                /\ jobs'[j] # jobs[j]) =>
                    video'.thumbnail_path = video.thumbnail_path]_vars

\* the path is set and its object stored, and a processing job whose
\* generation returned no path has ended
C31_Witness ==
    /\ video.thumbnail_path = ThumbnailPath(VideoId)
    /\ ObjectExists(store, ThumbnailPath(VideoId))
    /\ \E j \in JobIds : jobs[j].pc = "done" /\ jobs[j].thumb = NoPath

(* ----------------------------------------------------------- split brain *)
\* C32: a Video with status Completed carries no error_message of a failed
\* attempt, and a Video with status Failed has an error_message
C32_NoSplitBrain ==
    video.exists =>
        /\ (video.status = COMPLETED => video.error_message = NULL)
        /\ (video.status = FAILED => video.error_message \notin {NULL, ""})

(* ------------------------------------------------------- views, continued *)
\* the record_video_view calls made so far all carry different session ids
DistinctSessions ==
    \A r, q \in Requests :
        r # q /\ reqs[r].op \in {"stream", "view"} /\ reqs[q].op \in {"stream", "view"}
        /\ reqs[r].session_id # "" /\ reqs[q].session_id # ""
        => reqs[r].session_id # reqs[q].session_id

\* C33: when the record_video_view calls are for distinct new session ids,
\* the view counter equals the number of view sessions recorded, however the
\* calls interleave
C33_DistinctViews ==
    DistinctSessions => video.view_count = Cardinality(AllViewRows)

\* C34: there is at most one view session for every (video id, session id),
\* however the calls that find or create the pair interleave
C34_OneSessionPerPair ==
    \A sid \in SessionIds \cup {Uuid(r) : r \in Requests} :
        Cardinality(ViewRows(sid)) <= 1

(* ------------------------------------------------- progress, continued *)
\* the step at which update_video_progress has committed for a Video that
\* is there and the route answers
ProgressAnswered(r) ==
    /\ reqs[r].op = "progress"
    /\ reqs[r].pc = "save"
    /\ reqs'[r].pc = "done"
    /\ video.exists
    /\ reqs'[r].found # 0 /\ views'[reqs'[r].found].exists

\* C35: a progress report for a Video that is there is answered with status
\* 200 and the current_time, completion_percentage and resume_position of
\* the view session as it has been committed
C35_ProgressAnswered ==
    [][\A r \in Requests : ProgressAnswered(r) =>
          /\ reqs'[r].resp.status = 200
          /\ reqs'[r].resp.progress = ProgressOf(views'[reqs'[r].found])]_vars

\* update_video_progress has committed and returned the view session
ServiceReturned(p) ==
    /\ reqs[p].op = "progress"
    /\ reqs[p].pc = "done"
    /\ reqs[p].found # 0
    /\ reqs[p].exc \notin {MultipleResultsFound, IntegrityError}

\* p is the only progress report made for its session id
OnlyReport(p) ==
    \A o \in Requests \ {p} :
        reqs[o].op = "progress" => reqs[o].session_id # reqs[p].session_id

\* C36: after update_video_progress with current_time t has returned for a
\* Video that is there, a progress read for the same session id returns
\* current_time t, whether the duration of the Video is known or not
C36_RoundTrip ==
    [][\A r, p \in Requests :
          (/\ reqs[r].pc = "idle"
           /\ reqs'[r].op = "getprogress"
           /\ ServiceReturned(p)
           /\ OnlyReport(p)
           /\ reqs'[r].session_id = reqs[p].session_id) =>
              reqs'[r].resp.progress.current_time = reqs[p].time]_vars

(* ------------------------------------------------------ deleted and done *)
\* C37: once the status of a Video is Deleted no later step, of a processing
\* job queued or running when the delete happened included, changes it
C37_DeletedAbsorbing ==
    [][(video.exists /\ video.status = DELETED /\ video'.exists) =>
          video'.status = DELETED]_vars

\* C38: a Video that has reached status Completed stays Completed until a
\* delete request sets it to Deleted; the processing job that the upload
\* request queues after its inline processing does not change it
C38_CompletedStable ==
    [][(video.exists /\ video.status = COMPLETED /\ video'.exists
            /\ video'.status # COMPLETED) =>
                (video'.status = DELETED /\ del.pc = "commit")]_vars

(* ------------------------------------------------------ views and streams *)
\* the session ids for which a stream request has been answered with content
ServedSessions ==
    {reqs[r].session_id : r \in {q \in Requests : Served(q) /\ reqs[q].resp.status = 200}}

\* C39: every (video, session) pair that has been served stream content has
\* added one to the view counter, so the counter is at least the number of
\* pairs served, also when the view session of a pair was created by a
\* progress report before the first stream request
C39_ServedCounted ==
    video.exists => video.view_count >= Cardinality(ServedSessions)

====
